---- MODULE Spec2Model ----
(***************************************************************************)
(* Model of the website generator's content parser                        *)
(* (src/src/website_generator.py) and of the environment builder with its  *)
(* local web servers (src/src/environment_builder.py).                     *)
(*                                                                         *)
(* Text is a sequence of one-character strings; "\n" separates lines.      *)
(* A path is a sequence of segments below the file-system root.            *)
(* CHOOSE res \in {F(v) : v \in {e}} : TRUE is F(e), with e computed once: *)
(* a statement works on the value the statement before it left.            *)
(***************************************************************************)
EXTENDS Integers, Sequences, FiniteSets, TLC

VARIABLES
    response,        \* parser: the raw text handed to _parse_generated_content
    blocks,          \* parser: the marker blocks the response was assembled from
    parsed,          \* parser: the mapping _parse_generated_content returned
    dirs,            \* file system: the directories that exist
    files,           \* file system: path -> content of every regular file
    active_servers,  \* EnvironmentBuilder.active_servers: name -> LocalWebServer
    portOwner,       \* operating system: who holds each TCP port of localhost
    lastCall,        \* the last EnvironmentBuilder call and what it returned
    thr              \* concurrent callers of start_local_server: their positions

vars == <<response, blocks, parsed, dirs, files, active_servers, portOwner,
          lastCall, thr>>

parserVars == <<response, blocks, parsed>>
builderVars == <<dirs, files, active_servers, portOwner, lastCall>>

----------------------------------------------------------------------------
(* Strings                                                                 *)

NL == "\n"

UpperCase == <<"A", "B", "C", "D", "E", "F", "G", "H", "I", "J", "K", "L", "M",
               "N", "O", "P", "Q", "R", "S", "T", "U", "V", "W", "X", "Y", "Z">>
LowerCase == <<"a", "b", "c", "d", "e", "f", "g", "h", "i", "j", "k", "l", "m",
               "n", "o", "p", "q", "r", "s", "t", "u", "v", "w", "x", "y", "z">>

\* str.lower() on one character
LowerChar(c) ==
    IF \E i \in 1..Len(UpperCase) : UpperCase[i] = c
    THEN LowerCase[CHOOSE i \in 1..Len(UpperCase) : UpperCase[i] = c]
    ELSE c

\* str.lower()
Lower(s) == [i \in 1..Len(s) |-> LowerChar(s[i])]

\* the positions at which m occurs in s
Occurrences(s, m) ==
    {i \in 1..(Len(s) - Len(m) + 1) : SubSeq(s, i, i + Len(m) - 1) = m}

\* `m in s`
Contains(s, m) == Occurrences(s, m) # {}

MinOf(S) == CHOOSE x \in S : \A y \in S : x <= y
MaxOf(S) == 0 - MinOf({0 - x : x \in S})

\* s.split(m)[1], for s containing m: the text between the first occurrence
\* of m and the next one after it (or the end of s)
SplitSecond(s, m) ==
    LET first == MinOf(Occurrences(s, m))
        rest  == SubSeq(s, first + Len(m), Len(s))
    IN  IF Contains(rest, m)
        THEN SubSeq(rest, 1, MinOf(Occurrences(rest, m)) - 1)
        ELSE rest

Whitespace == {" ", "\t", "\n", "\r"}

\* str.strip()
Strip(s) ==
    LET keep == {i \in 1..Len(s) : s[i] \notin Whitespace}
    IN  IF keep = {} THEN <<>> ELSE SubSeq(s, MinOf(keep), MaxOf(keep))

\* s.replace(m, ''): the occurrences of m are removed left to right
RECURSIVE Remove(_, _)
Remove(s, m) ==
    IF Contains(s, m)
    THEN LET i == MinOf(Occurrences(s, m))
         IN  SubSeq(s, 1, i - 1) \o Remove(SubSeq(s, i + Len(m), Len(s)), m)
    ELSE s

\* s.startswith(p)
StartsWith(s, p) == Len(s) >= Len(p) /\ SubSeq(s, 1, Len(p)) = p

\* text.split('\n'): always at least one line
SplitLines(text) ==
    LET nl    == {i \in 1..Len(text) : text[i] = NL}
        cut   == [k \in 0..(Cardinality(nl) + 1) |->
                    IF k = 0 THEN 0
                    ELSE IF k = Cardinality(nl) + 1 THEN Len(text) + 1
                    ELSE CHOOSE i \in nl : Cardinality({j \in nl : j < i}) = k - 1]
    IN  [k \in 1..(Cardinality(nl) + 1) |-> SubSeq(text, cut[k - 1] + 1, cut[k] - 1)]

\* '\n'.join(lines)
RECURSIVE JoinLines(_)
JoinLines(lines) ==
    IF lines = <<>> THEN <<>>
    ELSE IF Len(lines) = 1 THEN lines[1]
    ELSE lines[1] \o <<NL>> \o JoinLines(Tail(lines))

----------------------------------------------------------------------------
(* WebsiteGenerator._parse_generated_content                               *)

\* ['filename:', 'file:', '<!-- file:', '// file:', '# file:'], in list order
Markers == <<
    <<"f", "i", "l", "e", "n", "a", "m", "e", ":">>,
    <<"f", "i", "l", "e", ":">>,
    <<"<", "!", "-", "-", " ", "f", "i", "l", "e", ":">>,
    <<"/", "/", " ", "f", "i", "l", "e", ":">>,
    <<"#", " ", "f", "i", "l", "e", ":">> >>

CommentEnd == <<"-", "-", ">">>
\* the backquote character (the lexer of TLA+ has no string for it)
Backquote == "backquote"

Fence == <<Backquote, Backquote, Backquote>>

\* any(marker in line.lower() for marker in [...])
IsMarkerLine(line) ==
    \E k \in 1..Len(Markers) : Contains(Lower(line), Markers[k])

\* the for/break loop: the first marker of the list that the line contains
\* decides; the name is cut out of the lower-cased line
ExtractFilename(line) ==
    LET k == MinOf({j \in 1..Len(Markers) : Contains(Lower(line), Markers[j])})
    IN  Strip(Remove(Strip(SplitSecond(Lower(line), Markers[k])), CommentEnd))

\* current_file is None (<<>>) or a string (<<name>>); Python truth of it
NoFile == <<>>
Truthy(current_file) == current_file # NoFile /\ current_file[1] # <<>>

EmptyFiles == [k \in {} |-> <<>>]

\* files[key] = value
Put(f, key, value) ==
    [k \in (DOMAIN f) \cup {key} |-> IF k = key THEN value ELSE f[k]]

\* a Commit that appends to what the key already holds
CommitAppend(st) ==
    IF Truthy(st.current_file) /\ st.current_content # <<>>
    THEN Put(st.files, st.current_file[1],
             IF st.current_file[1] \in DOMAIN st.files
             THEN st.files[st.current_file[1]] \o <<NL>> \o JoinLines(st.current_content)
             ELSE JoinLines(st.current_content))
    ELSE st.files

\* if current_file and current_content: files[current_file] = join(...)
Commit(st) ==
    IF Truthy(st.current_file) /\ st.current_content # <<>>
    THEN Put(st.files, st.current_file[1], JoinLines(st.current_content))
    ELSE st.files

\* a ParseLine without the branch that skips the code block markers
ParseLineKeepFences(st, line) ==
    IF IsMarkerLine(line)
    THEN [files |-> Commit(st),
          current_file |-> <<ExtractFilename(line)>>,
          current_content |-> <<>>]
    ELSE IF Truthy(st.current_file)
    THEN [st EXCEPT !.current_content = Append(@, line)]
    ELSE st

\* a ParseLine that skips a line only when its trimmed text is the fence alone
ParseLineSoleFence(st, line) ==
    IF IsMarkerLine(line)
    THEN [files |-> Commit(st),
          current_file |-> <<ExtractFilename(line)>>,
          current_content |-> <<>>]
    ELSE IF Strip(line) = Fence /\ Truthy(st.current_file)
    THEN st
    ELSE IF Truthy(st.current_file)
    THEN [st EXCEPT !.current_content = Append(@, line)]
    ELSE st

\* one iteration of "for line in lines"
ParseLine(st, line) ==
    IF IsMarkerLine(line)
    THEN [files |-> Commit(st),
          current_file |-> <<ExtractFilename(line)>>,
          current_content |-> <<>>]
    ELSE IF StartsWith(Strip(line), Fence) /\ Truthy(st.current_file)
    THEN st
    ELSE IF Truthy(st.current_file)
    THEN [st EXCEPT !.current_content = Append(@, line)]
    ELSE st

RECURSIVE ParseLines(_, _, _)
ParseLines(st, lines, i) ==
    IF i > Len(lines) THEN st
    ELSE (CHOOSE res \in {ParseLines(s, lines, i + 1) :
             s \in {ParseLine(st, lines[i])}} : TRUE)

\* the fixed text of the default index.html around the embedded content
HtmlHead == <<"<!DOCTYPE html>...<p>Generated content:</p><pre>">>
HtmlTail == <<"...</pre><script src=script.js></script></body></html>">>
DefaultCss == <<"body {...} h1 {...} pre {...}">>
DefaultJs == <<"// Basic anti-crawler functionality ...">>

IndexHtml == <<"i", "n", "d", "e", "x", ".", "h", "t", "m", "l">>
StylesCss == <<"s", "t", "y", "l", "e", "s", ".", "c", "s", "s">>
ScriptJs == <<"s", "c", "r", "i", "p", "t", ".", "j", "s">>

\* content[:1000]
EmbedLimit == 1000

Prefix(s, n) == SubSeq(s, 1, IF Len(s) < n THEN Len(s) ELSE n)

\* a default site that embeds the content without the [:1000]
CreateDefaultWholeContent(content) ==
    [k \in {IndexHtml, StylesCss, ScriptJs} |->
        IF k = IndexHtml THEN HtmlHead \o content \o HtmlTail
        ELSE IF k = StylesCss THEN DefaultCss
        ELSE DefaultJs]

CreateDefaultWebsiteStructure(content) ==
    [k \in {IndexHtml, StylesCss, ScriptJs} |->
        IF k = IndexHtml THEN HtmlHead \o Prefix(content, EmbedLimit) \o HtmlTail
        ELSE IF k = StylesCss THEN DefaultCss
        ELSE DefaultJs]

\* a parser that falls back to the default site only when no line of the text
\* is a marker line
ParseGeneratedDefaultWithoutMarker(text) ==
    LET start == [files |-> EmptyFiles, current_file |-> NoFile,
                  current_content |-> <<>>]
        last  == ParseLines(start, SplitLines(text), 1)
        found == Commit(last)
    IN  IF \A i \in 1..Len(SplitLines(text)) : ~IsMarkerLine(SplitLines(text)[i])
        THEN CreateDefaultWebsiteStructure(text)
        ELSE found

ParseGeneratedContent(text) ==
    LET start == [files |-> EmptyFiles, current_file |-> NoFile,
                  current_content |-> <<>>]
        last  == ParseLines(start, SplitLines(text), 1)
        found == Commit(last)
    IN  IF DOMAIN found = {} THEN CreateDefaultWebsiteStructure(text) ELSE found

----------------------------------------------------------------------------
(* The file system under the EnvironmentBuilder                            *)

EnvNames == {"e1", "e2"}

\* the working directory, and Path("test_environments") below it
Cwd == <<"w">>
BaseDirectory == Cwd \o <<"test_environments">>

\* self.base_directory / name
EnvPath(name) == IF name = "" THEN BaseDirectory ELSE BaseDirectory \o <<name>>

Skeleton == <<"static", "templates", "assets", "css", "js", "images">>

IsPrefix(p, q) == Len(p) <= Len(q) /\ SubSeq(q, 1, Len(p)) = p

Parent(path) == SubSeq(path, 1, Len(path) - 1)

\* the path the operating system reaches along the segments: ".." goes up
RECURSIVE Resolve(_)
Resolve(segs) ==
    IF segs = <<>> THEN <<>>
    ELSE LET up == Resolve(Parent(segs))
             s  == segs[Len(segs)]
         IN  IF s = ".." THEN (IF up = <<>> THEN <<>> ELSE Parent(up))
             ELSE Append(up, s)

\* Path.exists()
Exists(fs, path) == path \in fs.dirs \/ path \in DOMAIN fs.files

\* shutil.rmtree(path)
RmTree(fs, path) ==
    [ok    |-> TRUE,
     dirs  |-> {d \in fs.dirs : ~IsPrefix(path, d)},
     files |-> [f \in {g \in DOMAIN fs.files : ~IsPrefix(path, g)} |-> fs.files[f]]]

\* Path.mkdir(exist_ok=True): FileExistsError on a regular file,
\* FileNotFoundError without the parent directory
Mkdir(fs, path) ==
    IF path \in fs.dirs THEN fs
    ELSE IF path \in DOMAIN fs.files \/ Parent(path) \notin fs.dirs
    THEN [fs EXCEPT !.ok = FALSE]
    ELSE [fs EXCEPT !.dirs = @ \cup {path}]

\* a run of mkdir calls; the first that raises ends it
RECURSIVE MkdirEach(_, _, _)
MkdirEach(fs, paths, i) ==
    IF i > Len(paths) \/ ~fs.ok THEN fs
    ELSE (CHOOSE res \in {MkdirEach(f, paths, i + 1) :
             f \in {Mkdir(fs, paths[i])}} : TRUE)

\* Path.mkdir(parents=True, exist_ok=True) on a path that may hold "..":
\* every directory on the way is made, top down
RECURSIVE MkdirParents(_, _, _)
MkdirParents(fs, path, k) ==
    IF k > Len(path) \/ ~fs.ok THEN fs
    ELSE LET d == Resolve(SubSeq(path, 1, k))
         IN  IF d \in DOMAIN fs.files THEN [fs EXCEPT !.ok = FALSE]
             ELSE (CHOOSE res \in {MkdirParents(f, path, k + 1) :
                      f \in {[fs EXCEPT !.dirs = @ \cup {d}]}} : TRUE)

\* a create_test_environment that makes the directories only when the
\* environment is new
CreateTestEnvironmentOnlyNew(fs, name, clean) ==
    LET env     == EnvPath(name)
        cleaned == IF Exists(fs, env) /\ clean THEN RmTree(fs, env) ELSE fs
        subdirs == [i \in 1..Len(Skeleton) |-> env \o <<Skeleton[i]>>]
    IN  IF Exists(cleaned, env) THEN cleaned
        ELSE MkdirEach(cleaned, <<env>> \o subdirs, 1)

\* EnvironmentBuilder.create_test_environment: the file system it leaves
CreateTestEnvironmentFs(fs, name, clean) ==
    LET env     == EnvPath(name)
        cleaned == IF Exists(fs, env) /\ clean THEN RmTree(fs, env) ELSE fs
        subdirs == [i \in 1..Len(Skeleton) |-> env \o <<Skeleton[i]>>]
    IN  MkdirEach(cleaned, <<env>> \o subdirs, 1)

\* env_path / filename, for a relative filename
JoinPath(env, key) == env \o key

\* the body of the loop of create_website_files for one entry:
\* file_path.parent.mkdir(parents=True, exist_ok=True), then open(..., 'w')
\* and write; opening a directory raises
WriteEntry(fs, env, entry) ==
    LET file_path == JoinPath(env, entry.key)
        target    == Resolve(file_path)
        Write(made) ==
            IF ~made.ok THEN made
            ELSE IF target \in made.dirs THEN [made EXCEPT !.ok = FALSE]
            ELSE [made EXCEPT !.files = Put(@, target, entry.content)]
    IN  (CHOOSE res \in {Write(val) :
            val \in {MkdirParents(fs, Parent(file_path), 1)}} : TRUE)

\* EnvironmentBuilder.create_website_files: the entries in dict order; the
\* first that raises ends the call, what was written before it stays
RECURSIVE CreateWebsiteFilesFs(_, _, _, _)
CreateWebsiteFilesFs(fs, env, content, i) ==
    IF i > Len(content) \/ ~fs.ok THEN fs
    ELSE (CHOOSE res \in {CreateWebsiteFilesFs(f, env, content, i + 1) :
             f \in {WriteEntry(fs, env, content[i])}} : TRUE)

----------------------------------------------------------------------------
(* Ports and LocalWebServer                                                *)

\* "port or 8000"
DefaultPort == 8000
\* "while port < 65535"
PortLimit == 65535

\* The ports of localhost the model follows. Every other port is held by a
\* listener of another process for the whole run.
ModelPorts == {8000, 65534, 65535}

\* "free": nobody holds the port. "ext": another process listens on it.
\* "reserved": nobody listens, and bind() is refused all the same (a port
\* below 1024 without privilege, a socket bound and not listening).
\* An environment name: the LocalWebServer of that environment listens on it.
ExternalStates == {"free", "ext", "reserved"}

PortState(po, p) == IF p \in ModelPorts THEN po[p] ELSE "ext"

\* sock.connect_ex(('localhost', port)) == 0
Connects(po, p) == PortState(po, p) \notin {"free", "reserved"}

\* a bind that is refused only on a reserved port: a second listener may
\* take a port that somebody listens on
BindsShared(po, p) == PortState(po, p) # "reserved"

\* HTTPServer(('localhost', port), ...) binds and listens
Binds(po, p) == PortState(po, p) = "free"

\* LocalWebServer.find_free_port: ports are probed upwards from start_port
\* while port < 65535; the ports outside ModelPorts all connect, so the loop
\* returns at the first port of ModelPorts that does not.
FindFreePort(po, start_port) ==
    LET found == {p \in ModelPorts :
                    start_port <= p /\ p < PortLimit /\ ~Connects(po, p)}
    IN  IF found = {} THEN [ok |-> FALSE, port |-> 0]
        ELSE [ok |-> TRUE, port |-> MinOf(found)]

\* LocalWebServer.start, lines 68-74: the port after the probe; the bare
\* except swallows the RuntimeError of find_free_port
ProbedPort(po, port) ==
    IF Connects(po, port)
    THEN LET r == FindFreePort(po, port + 1)
         IN  IF r.ok THEN r.port ELSE port
    ELSE port

\* LocalWebServer(directory, port)
NewServer(name, port) ==
    [directory |-> EnvPath(name), port |-> port, bound |-> FALSE,
     is_running |-> FALSE]

\* the calls of find_free_port that LocalWebServer.start makes (line 72):
\* none, or one with its argument and what it gave
FindFreePortCalls(po, port) ==
    IF Connects(po, port)
    THEN <<[start_port |-> port + 1, found |-> FindFreePort(po, port + 1)]>>
    ELSE <<>>

\* the conditions a start raises with
NoError == "none"
NotExists == "Environment does not exist"
StartFailed == "Failed to start server"
NoFreePorts == "No free ports available"

\* LocalWebServer.start on a server that is not running, owned by `name`:
\* the server, the ports, whether it returned (ok) or raised and with what,
\* the find_free_port calls it made, the port it asked HTTPServer to bind
ServerStart(po, server, name) ==
    LET port == ProbedPort(po, server.port)
    IN  IF Binds(po, port)
        THEN [ok     |-> TRUE,
              server |-> [server EXCEPT !.port = port, !.bound = TRUE,
                                        !.is_running = TRUE],
              ports  |-> [po EXCEPT ![port] = name],
              error  |-> NoError,
              probes |-> FindFreePortCalls(po, server.port),
              bind_port |-> port]
        ELSE [ok     |-> FALSE,
              server |-> [server EXCEPT !.port = port],
              ports  |-> po,
              error  |-> StartFailed,
              probes |-> FindFreePortCalls(po, server.port),
              bind_port |-> port]

\* LocalWebServer.stop
ServerStop(po, server) ==
    IF server.bound
    THEN [server |-> [server EXCEPT !.is_running = FALSE],
          ports  |-> [p \in DOMAIN po |-> IF p = server.port THEN "free" ELSE po[p]]]
    ELSE [server |-> server, ports |-> po]

\* f"http://localhost:{port}"
Url(port) == <<"http://localhost:", port>>
None == <<>>

\* a get_url that reports the default port instead of the bound one
GetUrlDefaultPort(server) == IF server.is_running THEN Url(DefaultPort) ELSE None

\* LocalWebServer.get_url
GetUrl(server) == IF server.is_running THEN Url(server.port) ELSE None

\* del self.active_servers[name]
Del(reg, name) == [n \in (DOMAIN reg) \ {name} |-> reg[n]]

\* a stop_local_server without the del: the stopped handle stays registered
StopLocalServerKeepsHandle(reg, po, name) ==
    IF name \in DOMAIN reg
    THEN LET stopped == ServerStop(po, reg[name])
         IN  [reg |-> Put(reg, name, stopped.server), ports |-> stopped.ports]
    ELSE [reg |-> reg, ports |-> po]

\* EnvironmentBuilder.stop_local_server: the registry and the ports it leaves
StopLocalServerState(reg, po, name) ==
    IF name \in DOMAIN reg
    THEN [reg |-> Del(reg, name), ports |-> ServerStop(po, reg[name]).ports]
    ELSE [reg |-> reg, ports |-> po]

\* a stop_all_servers that stops one server only
StopFirstOnly(reg, po, names) ==
    IF names = {} THEN [reg |-> reg, ports |-> po]
    ELSE StopLocalServerState(reg, po, CHOOSE x \in names : TRUE)

\* EnvironmentBuilder.stop_all_servers: stop_local_server for each name of
\* list(self.active_servers.keys())
RECURSIVE StopEach(_, _, _)
StopEach(reg, po, names) ==
    IF names = {} THEN [reg |-> reg, ports |-> po]
    ELSE LET n == CHOOSE x \in names : TRUE
             s == StopLocalServerState(reg, po, n)
         IN  (CHOOSE res \in {StopEach(t.reg, t.ports, names \ {n}) :
                 t \in {s}} : TRUE)

----------------------------------------------------------------------------
(* Inputs of the parser                                                    *)

MaxLines == 3      \* lines of a raw response
MaxBlocks == 2     \* marker blocks of an assembled response

\* a line longer than the embedded prefix
LongLine == [i \in 1..(EmbedLimit + 1) |-> "z"]

RawLines == {
    <<"h", "e", "l", "l", "o">>,
    <<>>,
    Fence,
    <<"F", "i", "l", "e", "n", "a", "m", "e", ":", " ", "a", ".", "j", "s">>,
    <<"<", "!", "-", "-", " ", "F", "I", "L", "E", ":", " ", "A", "b", " ",
      "-", "-", ">">>,
    <<"/", "/", " ", "f", "i", "l", "e", ":">> }

\* the responses longer than the embedded prefix
LongTexts ==
    {<<LongLine>>} \cup {<<l, LongLine>> : l \in RawLines}
                  \cup {<<LongLine, l>> : l \in RawLines}

RawTexts == UNION {[1..n -> RawLines] : n \in 1..MaxLines} \cup LongTexts

NameLower == <<"a", ".", "j", "s">>
NameNested == <<"c", "s", "s", "/", "b", ".", "c", "s", "s">>
NameUpper == <<"A", "b">>
NameMarker == <<"m", "y", "f", "i", "l", "e", ":", "b">>

BlockNames == {NameLower, NameNested, NameUpper, NameMarker}

LineX == <<"x">>
LineHi == <<"<", "p", ">", "H", "i", "<", "/", "p", ">">>
LineFenceJs == Fence \o <<"j", "s">>
LineMarker == <<"#", " ", "f", "i", "l", "e", ":", " ", "z">>

LineHello == <<"h", "e", "l", "l", "o">>
LineFilename == <<"F", "i", "l", "e", "n", "a", "m", "e", ":", " ", "a", ".", "j", "s">>
\* a fence with white space around it
LinePaddedFence == <<" ">> \o Fence \o <<"\t">>

\* responses with fence lines of every kind inside a block
FencedTexts == {
    <<LineHello, LineFilename, LinePaddedFence, LineFenceJs, LineX, Fence, LineHi>>,
    <<LineFilename, LineFenceJs>>,
    <<LineFilename, LineX, LinePaddedFence, LineHi, LineFilename, Fence>> }

\* the content of a block, as its lines; <<>> is a block without content lines
BlockContents == {
    <<>>,
    <<LineX>>,
    <<LineHi, LineX>>,
    << <<>> >>,
    <<LineFenceJs, LineX>>,
    <<LineMarker, LineX>> }

Blocks == [name : BlockNames, content : BlockContents]

BlockSeqs == UNION {[1..n -> Blocks] : n \in 1..MaxBlocks}

FileMarker == <<"F", "i", "l", "e", ":", " ">>

\* a block as the model response writes it: the marker line `File: <name>`,
\* a fence line, the content lines, a closing fence line
EncodeBlock(b) == <<FileMarker \o b.name, Fence>> \o b.content \o <<Fence>>

RECURSIVE EncodeLines(_)
EncodeLines(bs) ==
    IF bs = <<>> THEN <<>> ELSE EncodeBlock(Head(bs)) \o EncodeLines(Tail(bs))

Encode(bs) == JoinLines(EncodeLines(bs))

NoResult == <<>>

----------------------------------------------------------------------------
(* The parser's specification                                              *)

\* _parse_generated_content(response) is called and returns
ParseGenerated ==
    /\ parsed = NoResult
    /\ parsed' = <<ParseGeneratedContent(response)>>
    /\ UNCHANGED <<response, blocks, builderVars, thr>>

NextParse == ParseGenerated

----------------------------------------------------------------------------
(* The EnvironmentBuilder's calls, one caller                              *)

\* the port argument of start_local_server; 0 stands for None ("port or
\* 8000" takes both for unspecified)
PreferredPorts == {0, 65534}

KeyIndex == <<"index.html">>
KeyEscape == <<"..", "..", "etc", "passwd">>
\* a file named as a directory of the skeleton
KeyCss == <<"css">>

\* the file sets handed to create_website_files, entries in dict order
SiteFiles == {
    << [key |-> KeyIndex, content |-> "v1"] >>,
    << [key |-> KeyIndex, content |-> "v2"], [key |-> KeyEscape, content |-> "x"] >> }

\* the file sets of the runs that follow the file system alone
SkeletonSiteFiles == SiteFiles \cup { << [key |-> KeyCss, content |-> "c"] >> }

NoServers == [n \in {} |-> NewServer(n, 0)]

Fs == [ok |-> TRUE, dirs |-> dirs, files |-> files]

\* what lastCall records of a call: its arguments, whether it returned (ok)
\* or raised, the URL it returned, and whether start_local_server answered
\* from the registry
Call(op, name, port, content, ok, url, existing) ==
    [op |-> op, name |-> name, port |-> port, content |-> content, ok |-> ok,
     url |-> url, existing |-> existing]

NoCall == Call("none", "", 0, <<>>, TRUE, None, FALSE)

CreateTestEnvironment(name, clean) ==
    \E r \in {CreateTestEnvironmentFs(Fs, name, clean)} :
        /\ dirs' = r.dirs
        /\ files' = r.files
        /\ lastCall' = Call(IF clean THEN "create_clean" ELSE "create", name, 0,
                            <<>>, r.ok, None, FALSE)
        /\ UNCHANGED <<active_servers, portOwner, parserVars, thr>>

CreateWebsiteFiles(name, content) ==
    \E r \in {CreateWebsiteFilesFs(Fs, EnvPath(name), content, 1)} :
        /\ dirs' = r.dirs
        /\ files' = r.files
        /\ lastCall' = Call("write", name, 0, content, r.ok, None, FALSE)
        /\ UNCHANGED <<active_servers, portOwner, parserVars, thr>>

\* a start_local_server that registers the server before it starts it
StartLocalServerResultEager(fs, reg, po, name, port) ==
    IF ~Exists(fs, EnvPath(name))
    THEN [ok |-> FALSE, url |-> None, existing |-> FALSE, reg |-> reg, ports |-> po,
          error |-> NotExists, probes |-> <<>>, bind_port |-> 0]
    ELSE IF name \in DOMAIN reg
    THEN [ok |-> TRUE, url |-> GetUrl(reg[name]), existing |-> TRUE,
          reg |-> reg, ports |-> po,
          error |-> NoError, probes |-> <<>>, bind_port |-> 0]
    ELSE LET Result(started) ==
                 [ok |-> started.ok,
                  url |-> IF started.ok THEN Url(started.server.port) ELSE None,
                  existing |-> FALSE,
                  reg |-> Put(reg, name, started.server), ports |-> started.ports,
                  error |-> started.error, probes |-> started.probes,
                  bind_port |-> started.bind_port]
         IN  (CHOOSE res \in {Result(val) :
                 val \in {ServerStart(po, NewServer(name, IF port = 0 THEN DefaultPort
                        ELSE port), name)}} : TRUE)

\* a start_local_server without the check that the environment exists
StartLocalServerResultNoCheck(fs, reg, po, name, port) ==
    IF name \in DOMAIN reg
    THEN [ok |-> TRUE, url |-> GetUrl(reg[name]), existing |-> TRUE,
          reg |-> reg, ports |-> po,
          error |-> NoError, probes |-> <<>>, bind_port |-> 0]
    ELSE LET Result(started) ==
                 [ok |-> started.ok,
                  url |-> IF started.ok THEN Url(started.server.port) ELSE None,
                  existing |-> FALSE,
                  reg |-> IF started.ok THEN Put(reg, name, started.server) ELSE reg,
                  ports |-> started.ports,
                  error |-> started.error, probes |-> started.probes,
                  bind_port |-> started.bind_port]
         IN  (CHOOSE res \in {Result(val) :
                 val \in {ServerStart(po, NewServer(name, IF port = 0 THEN DefaultPort
                        ELSE port), name)}} : TRUE)

\* the registry and the ports start_local_server leaves, and its result: the
\* URL, or the condition it raised with
StartLocalServerResult(fs, reg, po, name, port) ==
    IF ~Exists(fs, EnvPath(name))
    THEN [ok |-> FALSE, url |-> None, existing |-> FALSE, reg |-> reg, ports |-> po,
          error |-> NotExists, probes |-> <<>>, bind_port |-> 0]
    ELSE IF name \in DOMAIN reg
    THEN [ok |-> TRUE, url |-> GetUrl(reg[name]), existing |-> TRUE,
          reg |-> reg, ports |-> po,
          error |-> NoError, probes |-> <<>>, bind_port |-> 0]
    ELSE LET Result(started) ==
                 [ok |-> started.ok,
                  url |-> IF started.ok THEN Url(started.server.port) ELSE None,
                  existing |-> FALSE,
                  reg |-> IF started.ok THEN Put(reg, name, started.server) ELSE reg,
                  ports |-> started.ports,
                  error |-> started.error, probes |-> started.probes,
                  bind_port |-> started.bind_port]
         IN  (CHOOSE res \in {Result(val) :
                 val \in {ServerStart(po, NewServer(name, IF port = 0 THEN DefaultPort
                        ELSE port), name)}} : TRUE)

\* lastCall of a start: also the condition raised, the find_free_port calls
\* made and the port HTTPServer was asked to bind (0: none)
StartLocalServer(name, port) ==
    \E r \in {StartLocalServerResult(Fs, active_servers, portOwner, name, port)} :
        /\ active_servers' = r.reg
        /\ portOwner' = r.ports
        /\ lastCall' = Call("start", name, port, <<>>, r.ok, r.url, r.existing)
                        @@ [error |-> r.error, probes |-> r.probes,
                            bind_port |-> r.bind_port]
        /\ UNCHANGED <<dirs, files, parserVars, thr>>

StopLocalServer(name) ==
    \E r \in {StopLocalServerState(active_servers, portOwner, name)} :
        /\ active_servers' = r.reg
        /\ portOwner' = r.ports
        /\ lastCall' = Call("stop", name, 0, <<>>, TRUE, None, FALSE)
        /\ UNCHANGED <<dirs, files, parserVars, thr>>

\* lastCall.stopped: list(self.active_servers.keys()), the names it stops
StopAllServers ==
    \E r \in {StopEach(active_servers, portOwner, DOMAIN active_servers)} :
        /\ active_servers' = r.reg
        /\ portOwner' = r.ports
        /\ lastCall' = Call("stop_all", "", 0, <<>>, TRUE, None, FALSE)
                        @@ [stopped |-> DOMAIN active_servers]
        /\ UNCHANGED <<dirs, files, parserVars, thr>>

\* a cleanup_environment without "if env_path.exists()": rmtree raises
CleanupEnvironmentNoCheck(fs, name) ==
    IF Exists(fs, EnvPath(name)) THEN RmTree(fs, EnvPath(name))
    ELSE [fs EXCEPT !.ok = FALSE]

\* EnvironmentBuilder.cleanup_environment: the file system it leaves
CleanupEnvironmentFs(fs, name) ==
    IF Exists(fs, EnvPath(name)) THEN RmTree(fs, EnvPath(name)) ELSE fs

CleanupEnvironment(name) ==
    \E s \in {StopLocalServerState(active_servers, portOwner, name)},
       r \in {CleanupEnvironmentFs(Fs, name)} :
        /\ active_servers' = s.reg
        /\ portOwner' = s.ports
        /\ dirs' = r.dirs
        /\ files' = r.files
        /\ lastCall' = Call("cleanup", name, 0, <<>>, r.ok, None, FALSE)
        /\ UNCHANGED <<parserVars, thr>>

----------------------------------------------------------------------------
(* WebsiteGenerator.generate_and_deploy                                    *)

\* the text between the separators, as str.split(sep) for a one-character sep
RECURSIVE SplitOn(_, _)
SplitOn(s, sep) ==
    IF \A i \in 1..Len(s) : s[i] # sep THEN <<s>>
    ELSE LET k == MinOf({i \in 1..Len(s) : s[i] = sep})
         IN  <<SubSeq(s, 1, k - 1)>> \o SplitOn(SubSeq(s, k + 1, Len(s)), sep)

\* the path segment a text spells (the model writes a segment as one string)
SegmentOf(cs) ==
    CASE cs = IndexHtml -> "index.html"
      [] cs = StylesCss -> "styles.css"
      [] cs = ScriptJs -> "script.js"
      [] cs = <<"c", "s", "s">> -> "css"
      [] cs = <<"b", ".", "c", "s", "s">> -> "b.css"
      [] cs = <<"a", ".", "j", "s">> -> "a.js"
      [] cs = <<".", ".">> -> ".."
      [] OTHER -> "other"

\* env_path / filename: the segments of a relative file name
RECURSIVE Segments(_, _)
Segments(parts, i) ==
    IF i > Len(parts) THEN <<>>
    ELSE IF parts[i] = <<>> THEN Segments(parts, i + 1)
    ELSE <<SegmentOf(parts[i])>> \o Segments(parts, i + 1)

PathSegments(filename) == Segments(SplitOn(filename, "/"), 1)

\* website_content.items(): the entries of the parsed mapping
RECURSIVE FileEntries(_, _)
FileEntries(f, keys) ==
    IF keys = {} THEN <<>>
    ELSE LET k == CHOOSE x \in keys : TRUE
         IN  <<[key |-> PathSegments(k), content |-> f[k]]>>
             \o FileEntries(f, keys \ {k})

\* what openai_connector.generate_text does: it raises, or returns a text
GenFailure == [ok |-> FALSE, response |-> <<>>]

DeployResponses == {
    <<"h", "e", "l", "l", "o">>,
    Encode(<< [name |-> NameNested, content |-> <<LineX>>] >>) }

Generations == {GenFailure} \cup {[ok |-> TRUE, response |-> r] : r \in DeployResponses}

\* generate_website_from_prompt: raises when the collaborator does, else the
\* website data
GenerateWebsiteFromPrompt(gen) ==
    IF gen.ok
    THEN [ok |-> TRUE, files |-> ParseGeneratedContent(gen.response),
          raw_response |-> gen.response]
    ELSE [ok |-> FALSE, files |-> EmptyFiles, raw_response |-> <<>>]

\* the website data of each generation, its files as the entries that
\* create_website_files goes through
WebsiteTable ==
    {LET data == GenerateWebsiteFromPrompt(gen)
     IN  [gen |-> gen, ok |-> data.ok,
          entries |-> FileEntries(data.files, DOMAIN data.files)] : gen \in Generations}

WebsiteData(gen) == CHOOSE data \in WebsiteTable : data.gen = gen

\* env_name of generate_and_deploy: None, or a name
NoName == <<>>
GivenNames == {<<"e1">>}
\* f"{merchant_type}_test_{random.randint(1000, 9999)}": the first and the
\* last of the names a call can draw
SynthesizedNames == {"merchant_test_1000", "merchant_test_9999"}

MetadataJson == <<"metadata.json">>

\* deploy_to_local_environment under the name env (given, or synthesized): the
\* file system, registry and ports it leaves, the URL it returns, or the stage
\* at which it raised
DeployToLocalEnvironment(fs, reg, po, data, env, port) ==
    LET failed(stage, f) ==
            [ok |-> FALSE, stage |-> stage, fs |-> f, reg |-> reg, ports |-> po,
             url |-> None]
        \* server_url = self.env_builder.start_local_server(env_name, port)
        Start(withMeta) ==
            LET Result(started) ==
                    IF ~started.ok THEN failed("start", withMeta)
                    ELSE [ok |-> TRUE, stage |-> "done", fs |-> withMeta,
                          reg |-> started.reg, ports |-> started.ports,
                          url |-> started.url]
            IN  IF ~withMeta.ok THEN failed("metadata", withMeta)
                ELSE (CHOOSE res \in {Result(val) :
                         val \in {StartLocalServerResult(withMeta, reg, po, env, port)}} : TRUE)
        \* with open(metadata_path, 'w') as f: json.dump(...)
        WriteMetadata(written) ==
            IF ~written.ok THEN failed("write", written)
            ELSE (CHOOSE res \in {Start(val) :
                     val \in {IF EnvPath(env) \o MetadataJson \in written.dirs
                        THEN [written EXCEPT !.ok = FALSE]
                        ELSE [written EXCEPT
                        !.files = Put(@, EnvPath(env) \o MetadataJson,
                        <<"metadata">>)]}} : TRUE)
        \* self.env_builder.create_website_files(env_path, files)
        WriteFiles(created) ==
            IF ~created.ok THEN failed("create", created)
            ELSE (CHOOSE res \in {WriteMetadata(val) :
                     val \in {CreateWebsiteFilesFs(created, EnvPath(env), data.entries, 1)}} : TRUE)
    IN  (CHOOSE res \in {WriteFiles(val) :
            val \in {CreateTestEnvironmentFs(fs, env, TRUE)}} : TRUE)

\* the descriptor generate_and_deploy returns
Descriptor(env_name, url) ==
    [server_url |-> url,
     environment_name |-> IF env_name = NoName THEN "generated_test" ELSE env_name[1],
     success |-> TRUE]

\* a generate_and_deploy that makes the environment before it generates
GenerateAndDeployEnvFirst(fs, reg, po, gen, env_name, synthesized, port) ==
    LET env == IF env_name = NoName THEN synthesized ELSE env_name[1]
        Deployed(r) ==
            [ok |-> r.ok, stage |-> r.stage, fs |-> r.fs, reg |-> r.reg,
             ports |-> r.ports, created |-> env,
             descriptor |-> IF r.ok THEN <<Descriptor(env_name, r.url)>> ELSE None]
        Generated(data) ==
            IF ~data.ok
            THEN [ok |-> FALSE, stage |-> "generate",
                  fs |-> CreateTestEnvironmentFs(fs, env, TRUE), reg |-> reg,
                  ports |-> po, created |-> env, descriptor |-> None]
            ELSE (CHOOSE res \in {Deployed(val) :
                     val \in {DeployToLocalEnvironment(fs, reg, po, data, env, port)}} : TRUE)
    IN  (CHOOSE res \in {Generated(val) :
            val \in {WebsiteData(gen)}} : TRUE)

\* generate_and_deploy: an exception of either step goes to the caller (ok
\* false, no descriptor); created is the name deploy_to_local_environment used
GenerateAndDeployResult(fs, reg, po, gen, env_name, synthesized, port) ==
    LET env == IF env_name = NoName THEN synthesized ELSE env_name[1]
        \* the deployment has returned or raised
        Deployed(r) ==
            [ok |-> r.ok, stage |-> r.stage, fs |-> r.fs, reg |-> r.reg,
             ports |-> r.ports, created |-> env,
             descriptor |-> IF r.ok THEN <<Descriptor(env_name, r.url)>> ELSE None]
        \* generate_website_from_prompt has returned or raised
        Generated(data) ==
            IF ~data.ok
            THEN [ok |-> FALSE, stage |-> "generate", fs |-> fs, reg |-> reg,
                  ports |-> po, created |-> "", descriptor |-> None]
            ELSE (CHOOSE res \in {Deployed(val) :
                     val \in {DeployToLocalEnvironment(fs, reg, po, data, env, port)}} : TRUE)
    IN  (CHOOSE res \in {Generated(val) :
            val \in {WebsiteData(gen)}} : TRUE)

\* lastCall of a generate_and_deploy: the arguments, whether the collaborator
\* answered, the stage reached, the name used, the descriptor returned
GenerateAndDeploy(gen, env_name, synthesized, port) ==
    \E r \in {GenerateAndDeployResult(Fs, active_servers, portOwner, gen, env_name,
                                    synthesized, port)} :
        /\ dirs' = r.fs.dirs
        /\ files' = r.fs.files
        /\ active_servers' = r.reg
        /\ portOwner' = r.ports
        /\ lastCall' = [op |-> "deploy", env_name |-> env_name, port |-> port,
                        generated |-> gen.ok, ok |-> r.ok, stage |-> r.stage,
                        created |-> r.created, descriptor |-> r.descriptor]
        /\ UNCHANGED <<parserVars, thr>>

----------------------------------------------------------------------------
(* start_local_server, statement by statement, for concurrent callers      *)

Threads == {1, 2}

IdleThread ==
    [pc |-> "idle", name |-> "", port |-> 0, server |-> NewServer("", 0),
     ok |-> TRUE, url |-> None]

\* a caller enters start_local_server(name, port)
CallStart(t, name, port) ==
    /\ thr[t].pc = "idle"
    /\ thr' = [thr EXCEPT ![t] = [IdleThread EXCEPT !.pc = "exists",
                                     !.name = name, !.port = port]]
    /\ UNCHANGED <<builderVars, parserVars>>

\* lines 198-201: "if not env_path.exists(): raise ValueError"
CheckExists(t) ==
    /\ thr[t].pc = "exists"
    /\ thr' = [thr EXCEPT ![t] =
                 IF Exists(Fs, EnvPath(thr[t].name))
                 THEN [@ EXCEPT !.pc = "lookup"]
                 ELSE [@ EXCEPT !.pc = "done", !.ok = FALSE]]
    /\ UNCHANGED <<builderVars, parserVars>>

\* lines 203-207: "if env_name in self.active_servers: return ...get_url()",
\* else the LocalWebServer is constructed
Lookup(t) ==
    /\ thr[t].pc = "lookup"
    /\ thr' = [thr EXCEPT ![t] =
                 IF thr[t].name \in DOMAIN active_servers
                 THEN [@ EXCEPT !.pc = "done",
                                !.url = GetUrl(active_servers[thr[t].name])]
                 ELSE [@ EXCEPT !.pc = "probe",
                                !.server = NewServer(thr[t].name,
                                    IF thr[t].port = 0 THEN DefaultPort
                                    ELSE thr[t].port)]]
    /\ UNCHANGED <<builderVars, parserVars>>

\* LocalWebServer.start, lines 68-74: the probe of the port
Probe(t) ==
    /\ thr[t].pc = "probe"
    /\ thr' = [thr EXCEPT ![t].pc = "bind",
                          ![t].server.port = ProbedPort(portOwner, @)]
    /\ UNCHANGED <<builderVars, parserVars>>

\* LocalWebServer.start, lines 82-90: HTTPServer(...) binds, or raises
Bind(t) ==
    /\ thr[t].pc = "bind"
    /\ IF Binds(portOwner, thr[t].server.port)
       THEN /\ portOwner' = [portOwner EXCEPT ![thr[t].server.port] = thr[t].name]
            /\ thr' = [thr EXCEPT ![t].pc = "register",
                                  ![t].server.bound = TRUE,
                                  ![t].server.is_running = TRUE]
       ELSE /\ portOwner' = portOwner
            /\ thr' = [thr EXCEPT ![t].pc = "done", ![t].ok = FALSE]
    /\ UNCHANGED <<dirs, files, active_servers, lastCall, parserVars>>

\* lines 210-212: "self.active_servers[env_name] = server", the URL returned
Register(t) ==
    /\ thr[t].pc = "register"
    /\ active_servers' = Put(active_servers, thr[t].name, thr[t].server)
    /\ thr' = [thr EXCEPT ![t].pc = "done", ![t].url = Url(thr[t].server.port)]
    /\ UNCHANGED <<dirs, files, portOwner, lastCall, parserVars>>

\* the call has returned or raised; the caller may call again
Return(t) ==
    /\ thr[t].pc = "done"
    /\ thr' = [thr EXCEPT ![t] = IdleThread]
    /\ UNCHANGED <<builderVars, parserVars>>

----------------------------------------------------------------------------
(* Specifications                                                          *)

Init ==
    /\ response = <<>>
    /\ blocks = <<>>
    /\ parsed = NoResult
    /\ dirs = {<<>>, Cwd, BaseDirectory}
    /\ files = EmptyFiles
    /\ active_servers = NoServers
    /\ portOwner \in [ModelPorts -> ExternalStates]
    /\ lastCall = NoCall
    /\ thr = [t \in Threads |-> IdleThread]

Next ==
    \/ \E name \in EnvNames, clean \in BOOLEAN : CreateTestEnvironment(name, clean)
    \/ \E name \in EnvNames, content \in SiteFiles : CreateWebsiteFiles(name, content)
    \/ \E name \in EnvNames, port \in PreferredPorts : StartLocalServer(name, port)
    \/ \E name \in EnvNames : StopLocalServer(name)
    \/ StopAllServers
    \/ \E name \in EnvNames : CleanupEnvironment(name)

\* one caller at a time, every call atomic
Spec == Init /\ [][Next]_vars

\* the parser alone: the response is a raw text, or is assembled from blocks
InitParse ==
    /\ blocks \in BlockSeqs \cup {<<>>}
    /\ IF blocks = <<>>
       THEN response \in {JoinLines(lines) : lines \in RawTexts \cup FencedTexts}
       ELSE response = Encode(blocks)
    /\ parsed = NoResult
    /\ dirs = {<<>>, Cwd, BaseDirectory}
    /\ files = EmptyFiles
    /\ active_servers = NoServers
    /\ portOwner = [p \in ModelPorts |-> "free"]
    /\ lastCall = NoCall
    /\ thr = [t \in Threads |-> IdleThread]

SpecParse == InitParse /\ [][NextParse]_vars

\* the environments exist (create_test_environment has returned for each),
\* and callers on several threads run start_local_server at the same time
ConcFs ==
    CreateTestEnvironmentFs(
        CreateTestEnvironmentFs(
            [ok |-> TRUE, dirs |-> {<<>>, Cwd, BaseDirectory}, files |-> EmptyFiles],
            "e1", TRUE),
        "e2", TRUE)

InitConc ==
    /\ response = <<>>
    /\ blocks = <<>>
    /\ parsed = NoResult
    /\ dirs = ConcFs.dirs
    /\ files = EmptyFiles
    /\ active_servers = NoServers
    /\ portOwner \in [ModelPorts -> ExternalStates]
    /\ lastCall = NoCall
    /\ thr = [t \in Threads |-> IdleThread]

NextConc ==
    \E t \in Threads :
        \/ \E name \in EnvNames, port \in PreferredPorts : CallStart(t, name, port)
        \/ CheckExists(t)
        \/ Lookup(t)
        \/ Probe(t)
        \/ Bind(t)
        \/ Register(t)
        \/ Return(t)

SpecConc == InitConc /\ [][NextConc]_vars

\* the calls that touch the file system alone, no server started
InitFs ==
    /\ response = <<>>
    /\ blocks = <<>>
    /\ parsed = NoResult
    /\ dirs = {<<>>, Cwd, BaseDirectory}
    /\ files = EmptyFiles
    /\ active_servers = NoServers
    /\ portOwner = [p \in ModelPorts |-> "free"]
    /\ lastCall = NoCall
    /\ thr = [t \in Threads |-> IdleThread]

NextFs ==
    \/ \E name \in EnvNames, clean \in BOOLEAN : CreateTestEnvironment(name, clean)
    \/ \E name \in EnvNames, content \in SkeletonSiteFiles :
          CreateWebsiteFiles(name, content)
    \/ \E name \in EnvNames : CleanupEnvironment(name)

SpecFs == InitFs /\ [][NextFs]_vars

\* the builder's calls under any name a caller can pass: an environment name,
\* or the empty string, whose path is the base directory itself
AnyNames == {"e1", ""}

NextNames ==
    \/ \E name \in AnyNames, clean \in BOOLEAN : CreateTestEnvironment(name, clean)
    \/ \E name \in AnyNames, content \in SiteFiles : CreateWebsiteFiles(name, content)
    \/ \E name \in AnyNames, port \in PreferredPorts : StartLocalServer(name, port)
    \/ \E name \in AnyNames : StopLocalServer(name)
    \/ StopAllServers
    \/ \E name \in AnyNames : CleanupEnvironment(name)

SpecNames == Init /\ [][NextNames]_vars

\* generate_and_deploy calls, and the servers stopped in between
NextDeploy ==
    \/ \E gen \in Generations, env_name \in {NoName} \cup GivenNames,
          synthesized \in SynthesizedNames, port \in PreferredPorts :
          GenerateAndDeploy(gen, env_name, synthesized, port)
    \/ StopAllServers

SpecDeploy == Init /\ [][NextDeploy]_vars

----------------------------------------------------------------------------
(* Properties of the EnvironmentBuilder                                    *)

\* the ports on which a listener of environment n is bound
Listeners(po, n) == {p \in ModelPorts : po[p] = n}

\* C1: start_local_server called twice in succession for one environment
\* returns the same URL both times; the second call binds nothing, leaves the
\* registered server as it is, and exactly one listener is bound for the name.
C1_IdempotentStart ==
    [][(/\ lastCall.op = "start" /\ lastCall.ok
        /\ lastCall'.op = "start" /\ lastCall'.name = lastCall.name)
       => /\ lastCall'.ok
          /\ lastCall'.url = lastCall.url
          /\ lastCall'.url # None
          /\ active_servers' = active_servers
          /\ portOwner' = portOwner
          /\ Cardinality(Listeners(portOwner', lastCall.name)) = 1]_vars

\* a start answered from the registry, asked for another port than the bound one
C1_Witness ==
    /\ lastCall.op = "start" /\ lastCall.existing
    /\ lastCall.port = 65534
    /\ lastCall.url = Url(DefaultPort)

\* C2: with concurrent start_local_server calls for one name, never are two
\* listeners bound for the name, and once no call stands between its bind and
\* its registration every listener of the name is the registered one.
C2_AtomicStart ==
    \A n \in EnvNames :
        /\ Cardinality(Listeners(portOwner, n)) <= 1
        /\ (\A t \in Threads : ~(thr[t].pc = "register" /\ thr[t].name = n))
           => \A p \in Listeners(portOwner, n) :
                 n \in DOMAIN active_servers /\ active_servers[n].port = p

\* whether a key of the file set resolves outside the environment root
HasEscapingKey(name, content) ==
    \E i \in 1..Len(content) :
        ~IsPrefix(EnvPath(name), Resolve(JoinPath(EnvPath(name), content[i].key)))

\* C3: create_website_files with a file set holding a key that resolves
\* outside the environment root fails before any write: no file or directory
\* is created or changed, outside the root or inside it.
C3_TraversalRejected ==
    [][(lastCall'.op = "write" /\ HasEscapingKey(lastCall'.name, lastCall'.content))
       => /\ ~lastCall'.ok
          /\ files' = files
          /\ dirs' = dirs]_vars

\* the port start_local_server asks for
Wanted(port) == IF port = 0 THEN DefaultPort ELSE port

\* C7: a start on a fresh name whose preferred port p is occupied, with a free
\* port above p, binds a free port q > p and returns http://localhost:q.
C7_PortCollisionAvoided ==
    [][(/\ lastCall'.op = "start"
        /\ Exists(Fs, EnvPath(lastCall'.name))
        /\ lastCall'.name \notin DOMAIN active_servers
        /\ Connects(portOwner, Wanted(lastCall'.port))
        /\ \E q \in ModelPorts : q > Wanted(lastCall'.port) /\ portOwner[q] = "free")
       => /\ lastCall'.ok
          /\ \E q \in ModelPorts :
                /\ q > Wanted(lastCall'.port)
                /\ portOwner[q] = "free"
                /\ portOwner'[q] = lastCall'.name
                /\ lastCall'.url = Url(q)]_vars

\* C8: a start_local_server that fails on an existing environment (the server
\* cannot bind, no port is found) leaves the registry and the ports as they
\* were: no entry for the name, no listener bound for it.
C8_FailedStartLeavesNothing ==
    [][(/\ lastCall'.op = "start" /\ ~lastCall'.ok
        /\ Exists(Fs, EnvPath(lastCall'.name)))
       => /\ active_servers' = active_servers
          /\ portOwner' = portOwner
          /\ lastCall'.name \notin DOMAIN active_servers'
          /\ Listeners(portOwner', lastCall'.name) = {}]_vars

\* a start has failed on an existing environment
C8_Witness ==
    /\ lastCall.op = "start" /\ ~lastCall.ok
    /\ Exists(Fs, EnvPath(lastCall.name))

\* C9: a name enters the registry only by a successful start of that name and
\* leaves it only by a stop (stop, stop-all, cleanup); a registered handle is
\* never changed in place and is running with its listener bound; a
\* stop_local_server on a name without a handle changes no handle, no port.
C9_ServerStateMachine ==
    [][/\ \A n \in DOMAIN active_servers' :
             /\ active_servers'[n].is_running
             /\ active_servers'[n].bound
             /\ portOwner'[active_servers'[n].port] = n
       /\ \A n \in (DOMAIN active_servers') \ (DOMAIN active_servers) :
             lastCall'.op = "start" /\ lastCall'.name = n /\ lastCall'.ok
       /\ \A n \in (DOMAIN active_servers) \ (DOMAIN active_servers') :
             \/ lastCall'.op \in {"stop", "cleanup"} /\ lastCall'.name = n
             \/ lastCall'.op = "stop_all"
       /\ \A n \in (DOMAIN active_servers) \cap (DOMAIN active_servers') :
             active_servers'[n] = active_servers[n]
       /\ (lastCall'.op = "stop" /\ lastCall'.name \notin DOMAIN active_servers)
             => active_servers' = active_servers /\ portOwner' = portOwner]_vars

\* a stop has been called while a server of another name keeps running
C9_Witness ==
    /\ lastCall.op = "stop"
    /\ \E n \in DOMAIN active_servers : n # lastCall.name

\* C10: cleanup_environment never raises; on a name without directory and
\* without server it changes no directory, no file, no handle, no port; it
\* leaves the name without directory and without server, so that a second
\* cleanup of the name changes nothing.
C10_CleanupIdempotent ==
    [][lastCall'.op = "cleanup"
       => /\ lastCall'.ok
          /\ (~Exists(Fs, EnvPath(lastCall'.name))
              /\ lastCall'.name \notin DOMAIN active_servers)
             => UNCHANGED <<dirs, files, active_servers, portOwner>>
          /\ EnvPath(lastCall'.name) \notin dirs'
          /\ EnvPath(lastCall'.name) \notin DOMAIN files'
          /\ lastCall'.name \notin DOMAIN active_servers'
          /\ (lastCall.op = "cleanup" /\ lastCall.name = lastCall'.name)
             => UNCHANGED <<dirs, files, active_servers, portOwner>>]_vars

\* a cleanup has returned while another environment, with files and a running
\* server, is in place
C10_Witness ==
    /\ lastCall.op = "cleanup" /\ lastCall.ok
    /\ DOMAIN active_servers # {}
    /\ DOMAIN files # {}

\* the paths of the skeleton of an environment
SkeletonPaths(name) == {EnvPath(name) \o <<Skeleton[i]>> : i \in 1..Len(Skeleton)}

\* the directories and files at or below a path
Below(fs, path) ==
    {d \in fs.dirs : IsPrefix(path, d)} \cup {f \in DOMAIN fs.files : IsPrefix(path, f)}

\* C12: create_test_environment(name, clean) returns whenever clean is true
\* or no regular file sits on a path of the skeleton; when it has returned,
\* the root and the six subdirectories exist, and with clean=true the
\* environment holds nothing else (nothing from before the call remains).
C12_Skeleton ==
    [][lastCall'.op \in {"create", "create_clean"}
       => LET name == lastCall'.name
              after == [ok |-> TRUE, dirs |-> dirs', files |-> files']
          IN  /\ (lastCall'.op = "create_clean"
                   \/ SkeletonPaths(name) \cap DOMAIN files = {})
                  => lastCall'.ok
              /\ lastCall'.ok
                  => /\ EnvPath(name) \in dirs'
                     /\ SkeletonPaths(name) \subseteq dirs'
                     /\ lastCall'.op = "create_clean"
                         => Below(after, EnvPath(name))
                              = {EnvPath(name)} \cup SkeletonPaths(name)]_vars

\* a create_test_environment with clean=false has returned on a directory
\* that holds a file
C12_Witness ==
    /\ lastCall.op = "create" /\ lastCall.ok
    /\ (EnvPath(lastCall.name) \o KeyIndex) \in DOMAIN files

\* C11: stop_all_servers never raises; when it has returned the registry is
\* empty and no port is held by a listener of the builder; on an empty
\* registry it changes nothing.
C11_StopAllStopsAll ==
    [][lastCall'.op = "stop_all"
       => /\ lastCall'.ok
          /\ active_servers' = NoServers
          /\ \A p \in ModelPorts : portOwner'[p] \in ExternalStates
          /\ \A p \in ModelPorts :
                portOwner[p] \in ExternalStates => portOwner'[p] = portOwner[p]
          /\ active_servers = NoServers => portOwner' = portOwner]_vars

\* a stop_all_servers has returned that had two servers to stop
C11_Witness ==
    /\ lastCall.op = "stop_all"
    /\ Cardinality(lastCall.stopped) = 2

FreeFrom(po, start_port) ==
    {p \in ModelPorts : start_port <= p /\ p <= 65535 /\ ~Connects(po, p)}

\* C17: find_free_port(start_port) returns the smallest port of
\* start_port..65535 whose probe fails, and raises only when there is none.
C17_FindFreePortRange ==
    [][(lastCall'.op = "start" /\ lastCall'.probes # <<>>)
       => LET call == lastCall'.probes[1]
              free == FreeFrom(portOwner, call.start_port)
          IN  IF free = {} THEN ~call.found.ok
              ELSE call.found.ok /\ call.found.port = MinOf(free)]_vars

\* C18: a start whose preferred port is occupied, with no free port above it,
\* raises "no ports available", not the bind failure, and asks for no bind.
C18_NoPortsCondition ==
    [][(/\ lastCall'.op = "start"
        /\ Exists(Fs, EnvPath(lastCall'.name))
        /\ lastCall'.name \notin DOMAIN active_servers
        /\ Connects(portOwner, Wanted(lastCall'.port))
        /\ FreeFrom(portOwner, Wanted(lastCall'.port) + 1) = {})
       => /\ ~lastCall'.ok
          /\ lastCall'.error = NoFreePorts
          /\ lastCall'.bind_port = 0]_vars

\* C24: in every state the sequential start and stop calls reach, no two
\* handles of active_servers have the same port, and each handle's port is the
\* port its own server listens on. A start that registers a server while
\* another handle holds the port it asked for takes a higher port that was
\* free; a stop frees the port of the server it removes; and a start on a
\* free port takes exactly that port, also when an earlier server held it.
C24_DistinctPorts ==
    [][/\ \A a, b \in DOMAIN active_servers' :
             a # b => active_servers'[a].port # active_servers'[b].port
       /\ \A a \in DOMAIN active_servers' :
             PortState(portOwner', active_servers'[a].port) = a
       /\ (/\ lastCall'.op = "start"
           /\ lastCall'.name \notin DOMAIN active_servers
           /\ lastCall'.name \in DOMAIN active_servers')
          => LET q == active_servers'[lastCall'.name].port
                 w == Wanted(lastCall'.port)
             IN  /\ PortState(portOwner, q) = "free"
                 /\ PortState(portOwner, w) \in DOMAIN active_servers => q > w
       /\ (/\ lastCall'.op = "start"
           /\ Exists(Fs, EnvPath(lastCall'.name))
           /\ lastCall'.name \notin DOMAIN active_servers
           /\ PortState(portOwner, Wanted(lastCall'.port)) = "free")
          => /\ lastCall'.name \in DOMAIN active_servers'
             /\ active_servers'[lastCall'.name].port = Wanted(lastCall'.port)
       /\ (lastCall'.op = "stop" /\ lastCall'.name \in DOMAIN active_servers)
          => /\ lastCall'.name \notin DOMAIN active_servers'
             /\ PortState(portOwner', active_servers[lastCall'.name].port) = "free"
      ]_vars

\* two starts were given the same preferred port: the first server holds it,
\* the second was started on a higher port
C24_Witness ==
    /\ lastCall.op = "start" /\ lastCall.ok /\ ~lastCall.existing
    /\ DOMAIN active_servers = EnvNames
    /\ \E other \in EnvNames \ {lastCall.name} :
          /\ active_servers[other].port = Wanted(lastCall.port)
          /\ active_servers[lastCall.name].port > Wanted(lastCall.port)

\* C23: after any sequence of create_test_environment, create_website_files,
\* start_local_server, stop_local_server, stop_all_servers and
\* cleanup_environment calls of one caller, every name in active_servers has
\* an existing environment directory.
C23_ServersHaveDirectories ==
    \A name \in DOMAIN active_servers : EnvPath(name) \in dirs

----------------------------------------------------------------------------
(* Properties of generate_and_deploy                                       *)

\* C13: a generate_and_deploy whose text generation fails raises and changes
\* nothing: no directory made or wiped, no file written, registry and ports
\* as before.
C13_GenerationFailureAborts ==
    [][(lastCall'.op = "deploy" /\ ~lastCall'.generated)
       => /\ ~lastCall'.ok
          /\ lastCall'.descriptor = None
          /\ UNCHANGED <<dirs, files, active_servers, portOwner>>]_vars

\* a generation has failed while an earlier deployment is in place and serving
C13_Witness ==
    /\ lastCall.op = "deploy" /\ ~lastCall.generated
    /\ DOMAIN files # {}
    /\ DOMAIN active_servers # {}

\* C14: the environment name of the descriptor that generate_and_deploy
\* returns is the name of the environment it created, and the returned URL is
\* the URL of the server registered under that name.
C14_DescriptorNamesEnvironment ==
    [][(lastCall'.op = "deploy" /\ lastCall'.ok)
       => LET d == lastCall'.descriptor[1]
          IN  /\ d.environment_name = lastCall'.created
              /\ EnvPath(d.environment_name) \in dirs'
              /\ d.environment_name \in DOMAIN active_servers'
              /\ GetUrl(active_servers'[d.environment_name]) = d.server_url]_vars

\* C15: a generate_and_deploy that wrote the files and whose server then
\* failed to start returns a descriptor whose success flag is false, and
\* leaves the environment with its files and metadata.json in place.
C15_PartialDeploymentReported ==
    [][(lastCall'.op = "deploy" /\ lastCall'.stage = "start")
       => /\ lastCall'.descriptor # None
          /\ ~lastCall'.descriptor[1].success
          /\ EnvPath(lastCall'.created) \in dirs'
          /\ (EnvPath(lastCall'.created) \o MetadataJson) \in DOMAIN files']_vars

\* C22: a deployment without a given name synthesizes a name that no earlier
\* deployment used: the directory of that name does not exist before the
\* call (nothing is wiped) and no server is registered under it (the URL
\* returned is not that of an earlier server).
C22_SynthesizedNamesDoNotCollide ==
    [][(/\ lastCall'.op = "deploy"
        /\ lastCall'.generated
        /\ lastCall'.env_name = NoName)
       => /\ EnvPath(lastCall'.created) \notin dirs
          /\ lastCall'.created \notin DOMAIN active_servers]_vars

----------------------------------------------------------------------------
(* Properties of the parser                                                *)

\* some line of the text holds a marker (no marker holds a line break)
HasMarkerText(text) == \E k \in 1..Len(Markers) : Contains(Lower(text), Markers[k])

IsFenceLine(line) == StartsWith(Strip(line), Fence)

\* the blocks are a file set: at least one entry, the names differ, and every
\* content is a text (at least one line)
IsFileSet(bs) ==
    /\ bs # <<>>
    /\ \A i, j \in 1..Len(bs) : i # j => bs[i].name # bs[j].name
    /\ \A i \in 1..Len(bs) : bs[i].content # <<>>

RoundTrips(bs, result) ==
    /\ DOMAIN result = {bs[i].name : i \in 1..Len(bs)}
    /\ \A i \in 1..Len(bs) : result[bs[i].name] = JoinLines(bs[i].content)

\* C4 as claimed: every file set, encoded with `File: <name>` markers and
\* fences and parsed, comes back with the same keys and the same contents.
C4_RoundTripAnyName ==
    (parsed # NoResult /\ IsFileSet(blocks)) => RoundTrips(blocks, parsed[1])

\* a name the marker line gives back unchanged: lower case, not empty, no
\* white space at its ends, no marker and no "-->" in it
PlainName(name) ==
    /\ name # <<>>
    /\ Lower(name) = name
    /\ Strip(name) = name
    /\ ~HasMarkerText(name)
    /\ ~Contains(name, CommentEnd)

\* a content line the parser keeps: no marker in it, no fence at its start
PlainLine(line) == ~HasMarkerText(line) /\ ~IsFenceLine(line)

IsPlainFileSet(bs) ==
    /\ IsFileSet(bs)
    /\ \A i \in 1..Len(bs) :
          /\ PlainName(bs[i].name)
          /\ \A k \in 1..Len(bs[i].content) : PlainLine(bs[i].content[k])

\* C4, amended: the round trip holds for the file sets whose names are plain
\* (lower case, ...) and whose content lines hold no marker and start with no
\* fence.
C4_RoundTrip ==
    (parsed # NoResult /\ IsPlainFileSet(blocks)) => RoundTrips(blocks, parsed[1])

\* a plain file set of two entries has been parsed
C4_Witness ==
    /\ parsed # NoResult
    /\ IsPlainFileSet(blocks)
    /\ Len(blocks) = 2
    /\ \E i \in 1..2 : Len(blocks[i].content) = 2

\* C5: a text without any marker parses to exactly index.html, styles.css and
\* script.js, and index.html holds, between its fixed head and tail, the first
\* 1000 characters of the text (all of it when it is shorter).
C5_Fallback ==
    (parsed # NoResult /\ ~HasMarkerText(response))
    => /\ DOMAIN parsed[1] = {IndexHtml, StylesCss, ScriptJs}
       /\ LET html == parsed[1][IndexHtml]
              n    == IF Len(response) < 1000 THEN Len(response) ELSE 1000
          IN  /\ Len(html) = n + 2
              /\ html[1] = HtmlHead[1]
              /\ html[n + 2] = HtmlTail[1]
              /\ SubSeq(html, 2, n + 1) = SubSeq(response, 1, n)

\* a text of more than 1000 characters without a marker has been parsed
C5_Witness ==
    /\ parsed # NoResult
    /\ ~HasMarkerText(response)
    /\ Len(response) > 1000

\* the lines of a block's content that are content to the parser
RECURSIVE Kept(_)
Kept(content) ==
    IF content = <<>> THEN <<>>
    ELSE IF IsFenceLine(Head(content)) THEN Kept(Tail(content))
    ELSE <<Head(content)>> \o Kept(Tail(content))

\* the blocks are the marker blocks of the response (no content line is a
\* marker line), and block j is the last of at least two blocks of its name
IsRepeatedBlock(bs, j) ==
    /\ \A i \in 1..Len(bs) : \A k \in 1..Len(bs[i].content) :
          ~HasMarkerText(bs[i].content[k])
    /\ \E i \in 1..(j - 1) : bs[i].name = bs[j].name
    /\ \A i \in (j + 1)..Len(bs) : bs[i].name # bs[j].name

\* the key the parser files the block under
KeyOf(b) == ExtractFilename(FileMarker \o b.name)

\* C6 as claimed: of two blocks naming one file the mapping holds, for that
\* key, the content lines of the later block only, also when it has none.
C6_LastWriteWinsAlways ==
    parsed # NoResult
    => \A j \in 1..Len(blocks) :
          (IsRepeatedBlock(blocks, j) /\ KeyOf(blocks[j]) \in DOMAIN parsed[1])
          => parsed[1][KeyOf(blocks[j])] = JoinLines(Kept(blocks[j].content))

\* C6, amended: of two blocks naming one file, the later of which has at
\* least one content line, the mapping holds for that key the content lines of
\* the later block only.
C6_LastWriteWins ==
    parsed # NoResult
    => \A j \in 1..Len(blocks) :
          (IsRepeatedBlock(blocks, j) /\ Kept(blocks[j].content) # <<>>)
          => /\ KeyOf(blocks[j]) \in DOMAIN parsed[1]
             /\ parsed[1][KeyOf(blocks[j])] = JoinLines(Kept(blocks[j].content))

\* two blocks of one name with different content lines have been parsed
C6_Witness ==
    /\ parsed # NoResult
    /\ Len(blocks) = 2
    /\ IsRepeatedBlock(blocks, 2)
    /\ Kept(blocks[1].content) # <<>>
    /\ Kept(blocks[2].content) # <<>>
    /\ Kept(blocks[1].content) # Kept(blocks[2].content)

\* the marker lines of a text, by their index
MarkerLines(lines) == {i \in 1..Len(lines) : IsMarkerLine(lines[i])}

\* the lines between marker line i and the next marker line (or the end)
\* that are content to the parser
BlockBody(lines, i) ==
    LET later == {j \in MarkerLines(lines) : j > i}
        end   == IF later = {} THEN Len(lines) ELSE MinOf(later) - 1
    IN  Kept(SubSeq(lines, i + 1, end))

\* the lines after marker line i, up to the next marker line or the end; ml
\* is the set of the marker lines
BlockLines(lines, ml, i) ==
    LET later == {j \in ml : j > i}
        end   == IF later = {} THEN Len(lines) ELSE MinOf(later) - 1
    IN  SubSeq(lines, i + 1, end)

\* the marker blocks of a text: the index of the marker line, the file name
\* it gives, the lines up to the next marker line
MarkerBlocks(lines) ==
    CHOOSE bs \in {{[i |-> i, name |-> ExtractFilename(lines[i]),
                     lines |-> BlockLines(lines, ml, i)] : i \in ml} :
                   ml \in {MarkerLines(lines)}} : TRUE

\* C19: when the last marker line of the input has an empty file name and
\* content lines follow it, the result holds those lines under the key "".
C19_EmptyFilenameKept ==
    parsed # NoResult
    => LET lines == SplitLines(response)
           last  == MaxOf(MarkerLines(lines))
       IN  (/\ MarkerLines(lines) # {}
            /\ ExtractFilename(lines[last]) = <<>>
            /\ BlockBody(lines, last) # <<>>)
           => /\ <<>> \in DOMAIN parsed[1]
              /\ parsed[1][<<>>] = JoinLines(BlockBody(lines, last))

\* C20 as claimed: an input with at least one marker line never parses to the
\* default site.
C20_DefaultOnlyWithoutMarker ==
    (parsed # NoResult /\ MarkerLines(SplitLines(response)) # {})
    => parsed[1] # CreateDefaultWebsiteStructure(response)

\* the text has marker blocks, and each of them names a file
HasNamedMarkers(bs) == bs # {} /\ \A b \in bs : b.name # <<>>

\* some marker block has at least one content line
HasFilledBlock(bs) == \E b \in bs : Kept(b.lines) # <<>>

\* C20, amended: an input whose marker lines all name a file parses to the
\* default site exactly when none of its marker blocks has a content line;
\* otherwise to a mapping whose keys are names of its marker lines.
C20_DefaultWhenNothingCommitted ==
    parsed # NoResult
    => \A bs \in {MarkerBlocks(SplitLines(response))} :
          HasNamedMarkers(bs)
          => IF HasFilledBlock(bs)
             THEN /\ DOMAIN parsed[1] \subseteq {b.name : b \in bs}
                  /\ parsed[1] # CreateDefaultWebsiteStructure(response)
             ELSE parsed[1] = CreateDefaultWebsiteStructure(response)

\* an input with marker lines, none of whose blocks has content lines, has
\* been parsed
C20_Witness ==
    /\ parsed # NoResult
    /\ \E bs \in {MarkerBlocks(SplitLines(response))} :
          /\ Cardinality(bs) = 2
          /\ HasNamedMarkers(bs)
          /\ ~HasFilledBlock(bs)

\* the lines of a block's content other than the lines that are the fence
\* alone once trimmed
RECURSIVE KeptButSoleFences(_)
KeptButSoleFences(content) ==
    IF content = <<>> THEN <<>>
    ELSE IF Strip(Head(content)) = Fence THEN KeptButSoleFences(Tail(content))
    ELSE <<Head(content)>> \o KeptButSoleFences(Tail(content))

\* the block names a file, and no later block has that name: the result holds
\* its content under the name
IsLastOfName(bs, b) ==
    /\ b.name # <<>>
    /\ \A c \in bs : c.i > b.i => c.name # b.name

\* C21 as claimed: while a file is open, the lines dropped are exactly those
\* whose trimmed text is the fence alone; every other line of the block, one
\* that starts with a fence and goes on included, is in the file's content,
\* verbatim and in input order, and no line before the first marker is.
C21_OnlySoleFencesDropped ==
    parsed # NoResult
    => \A bs \in {MarkerBlocks(SplitLines(response))} : \A b \in bs :
          (IsLastOfName(bs, b) /\ KeptButSoleFences(b.lines) # <<>>)
          => /\ b.name \in DOMAIN parsed[1]
             /\ parsed[1][b.name] = JoinLines(KeptButSoleFences(b.lines))

\* C21, amended: while a file is open, the lines dropped are exactly those
\* whose trimmed text starts with the fence; every other line of the block is
\* in the file's content, verbatim and in input order, and no line before the
\* first marker is.
C21_FenceLinesDropped ==
    parsed # NoResult
    => \A bs \in {MarkerBlocks(SplitLines(response))} : \A b \in bs :
          (IsLastOfName(bs, b) /\ Kept(b.lines) # <<>>)
          => /\ b.name \in DOMAIN parsed[1]
             /\ parsed[1][b.name] = JoinLines(Kept(b.lines))

\* a text has been parsed that holds a line before its first marker line and,
\* in the block of a named file, a line that is the fence alone, a line that
\* starts with the fence and goes on, and an ordinary line
C21_Witness ==
    /\ parsed # NoResult
    /\ ~IsMarkerLine(SplitLines(response)[1])
    /\ \E bs \in {MarkerBlocks(SplitLines(response))} : \E b \in bs :
          /\ IsLastOfName(bs, b)
          /\ \E k \in 1..Len(b.lines) : Strip(b.lines[k]) = Fence
          /\ \E k \in 1..Len(b.lines) :
                IsFenceLine(b.lines[k]) /\ Strip(b.lines[k]) # Fence
          /\ Kept(b.lines) # <<>>

====
